---- MODULE Spec2Model ----
(***************************************************************************)
(* mygithubstatus: a digest of one user's public GitHub activity.          *)
(* main() obtains the raw events either from a capture file or page by     *)
(* page through my_events(), folds them with parse_events() and renders    *)
(* the aggregate with print_events().  The model follows src/main.rs.      *)
(***************************************************************************)
EXTENDS Integers, Sequences, FiniteSets, TLC

(***************************************************************************)
(* Bounds and program constants                                            *)
(***************************************************************************)
\* Longest capture file (number of events) the model loads.
MaxEvents == 3

\* let pagelimit = 5;
pagelimit == 5

\* The window computed by main(): start and end are instants; the model's
\* clock has the instants 0..4, one before the window, the two boundaries,
\* one inside and one after it.
start == 1
end == 3

(***************************************************************************)
(* Strings that are printed, trimmed or ordered are sequences of           *)
(* characters; strings that are only compared to literals are TLA+ strings.*)
(***************************************************************************)
Alphabet == <<" ", "/", "1", "2", "a", "b", "p", "x", "y">>

Ord(c) == CHOOSE k \in 1..Len(Alphabet) : Alphabet[k] = c

\* str < str as Rust's Ord for String orders two strings (byte-wise,
\* lexicographic, a proper prefix first).
RECURSIVE StrLt(_, _)
StrLt(s, t) ==
    IF t = <<>> THEN FALSE
    ELSE IF s = <<>> THEN TRUE
    ELSE IF Head(s) = Head(t) THEN StrLt(Tail(s), Tail(t))
    ELSE Ord(Head(s)) < Ord(Head(t))

RECURSIVE TrimStart(_)
TrimStart(s) ==
    IF s # <<>> /\ Head(s) = " " THEN TrimStart(Tail(s)) ELSE s

RECURSIVE TrimEnd(_)
TrimEnd(s) ==
    IF s # <<>> /\ s[Len(s)] = " " THEN TrimEnd(SubSeq(s, 1, Len(s) - 1)) ELSE s

\* str::trim
Trim(s) == TrimEnd(TrimStart(s))

(***************************************************************************)
(* Option<T>: None is the empty tuple, Some(x) the one-element tuple.      *)
(***************************************************************************)
None == <<>>
Some(x) == <<x>>
unwrap(o) == o[1]

(***************************************************************************)
(* Maps (BTreeMap, HashMap) are functions on their key set.                *)
(***************************************************************************)
EmptyMap == [k \in {} |-> k]

\* map.entry(k).or_insert(v) / or_insert_with(|| v)
OrInsert(m, k, v) ==
    IF k \in DOMAIN m THEN m
    ELSE [x \in DOMAIN m \cup {k} |-> IF x = k THEN v ELSE m[x]]

\* The keys in descending order.
RECURSIVE SortedKeysDescending(_)
SortedKeysDescending(S) ==
    IF S = {} THEN <<>>
    ELSE LET least == CHOOSE k \in S : \A o \in S \ {k} : StrLt(k, o)
         IN  SortedKeysDescending(S \ {least}) \o <<least>>

\* The keys of a BTreeMap in iteration order (ascending).
RECURSIVE SortedKeys(_)
SortedKeys(S) ==
    IF S = {} THEN <<>>
    ELSE LET least == CHOOSE k \in S : \A o \in S \ {k} : StrLt(k, o)
         IN  <<least>> \o SortedKeys(S \ {least})

(***************************************************************************)
(* Events                                                                  *)
(***************************************************************************)
PullRequest(url, title) == [html_url |-> url, title |-> title]
Issue(url, title) == [html_url |-> url, title |-> title]
Review(state) == [state |-> state]

\* Payload: the fields parse_events reads (comment and git_ref are never read).
Payload(action, review, pull_request, issue) ==
    [action |-> action, review |-> review,
     pull_request |-> pull_request, issue |-> issue]

Event(typ, login, repo, t, payload) ==
    [typ |-> typ, actor |-> [login |-> login], repo |-> [name |-> repo],
     payload |-> payload, created_at |-> t]

NoPayload == Payload(None, None, None, None)

\* --user
user == "me"

RA == <<"a", "/", "x">>
RB == <<"b", "/", "x">>
U1 == <<"p", "/", "1">>
U2 == <<"p", "/", "2">>
T1 == <<"x">>
T2 == <<"y">>
TPad == <<" ", "y", " ">>

\* Instants relative to the window.
Inside == start + 1
Before == start - 1
After == end + 1

PushEv(login, repo, t) == Event("PushEvent", login, repo, t, NoPayload)
PrEv(repo, t, action, url, title) ==
    Event("PullRequestEvent", user, repo, t,
          Payload(Some(action), None, Some(PullRequest(url, title)), None))
ReviewEv(repo, t, state, url, title) ==
    Event("PullRequestReviewEvent", user, repo, t,
          Payload(Some("created"), Some(Review(state)),
                  Some(PullRequest(url, title)), None))
CommentEv(repo, t, url, title) ==
    Event("IssueCommentEvent", user, repo, t,
          Payload(Some("created"), None, None, Some(Issue(url, title))))
WatchEv(repo, t) ==
    Event("WatchEvent", user, repo, t, Payload(Some("started"), None, None, None))

\* Events whose type implies a payload field that is absent.
PrNoPullRequest(t) ==
    Event("PullRequestEvent", user, RA, t, Payload(Some("opened"), None, None, None))
PrNoAction ==
    Event("PullRequestEvent", user, RA, Inside,
          Payload(None, None, Some(PullRequest(U1, T1)), None))
ReviewNoReview ==
    Event("PullRequestReviewEvent", user, RA, Inside,
          Payload(Some("created"), None, Some(PullRequest(U1, T1)), None))
ReviewNoPullRequest ==
    Event("PullRequestReviewEvent", user, RA, Inside,
          Payload(Some("created"), Some(Review("approved")), None, None))
CommentNoIssue ==
    Event("IssueCommentEvent", user, RA, Inside, Payload(Some("created"), None, None, None))

MalformedEvents ==
    {PrNoPullRequest(Inside), PrNoPullRequest(Before), PrNoAction,
     ReviewNoReview, ReviewNoPullRequest, CommentNoIssue}

\* The events a capture file or a page is made of: every event type, every
\* position relative to the window, two repositories, two targets, and titles
\* that differ between events on the same target.
Events ==
    {PushEv(user, RA, Inside), PushEv(user, RA, start), PushEv(user, RA, Before),
     PushEv(user, RA, After), PushEv(user, RB, Inside), PushEv("other", RA, Inside),
     PrEv(RA, Inside, "opened", U1, T1), PrEv(RA, Inside, "opened", U2, T1),
     PrEv(RA, Inside, "closed", U1, T2),
     ReviewEv(RA, Inside, "approved", U1, T1),
     ReviewEv(RA, Inside, "changes_requested", U1, T2),
     CommentEv(RA, Inside, U1, T1), CommentEv(RA, Inside, U1, T2),
     CommentEv(RA, end, U1, TPad), CommentEv(RB, Inside, U1, T2),
     WatchEv(RA, Inside)}
    \cup MalformedEvents

\* The capture files: every sequence of at most MaxEvents events.
Files == UNION {[1..n -> Events] : n \in 0..MaxEvents}

\* The pages the live source serves.  A page the user has qualifying events
\* on may also hold events of other actors or events older than the window.
Pages ==
    {<<>>,
     <<PushEv(user, RA, Inside)>>,
     <<PushEv(user, RA, After), PushEv("other", RA, Inside)>>,
     <<CommentEv(RA, Inside, U1, T1), PushEv(user, RA, Before)>>,
     <<PushEv(user, RA, start)>>,
     <<PushEv("other", RA, Inside)>>,
     <<PushEv(user, RA, Before)>>}

(***************************************************************************)
(* State                                                                   *)
(***************************************************************************)
VARIABLES
    pc,          \* where main() is: "main", "my_events", "parse_events",
                 \* "print_events", "done", "error" (main returned Err),
                 \* "panicked" (an unwrap() failed)
    from_file,   \* opt.from_file.is_some()
    served,      \* the pages query() has returned so far, in request order
    page,        \* my_events: page
    r,           \* my_events: r
    raw_events,  \* main: raw_events
    next,        \* parse_events: position of the iterator in raw_events
    repos,       \* parse_events: r, then RepoEventParseData.repos
    before,      \* parse_events: before
    after,       \* parse_events: after
    stdout,      \* the lines printed so far
    err          \* the error main ended with, "" when there is none

vars == <<pc, from_file, served, page, r, raw_events, next, repos, before, after, stdout, err>>

fetch_vars == <<served, page, r>>
parse_vars == <<next, repos, before, after>>

\* A printed line: what it is, and its text.
Line(kind, text) == [kind |-> kind, text |-> text]

(***************************************************************************)
(* my_events                                                               *)
(***************************************************************************)
\* t > start
in_timestamp(e) == e.created_at > start

\* Qualifies without the check of the actor (lines 118-120 left out).
QualifiesAnyActor(e) == in_timestamp(e)

\* The events of a page that are pushed to r: the actor is the user and the
\* event is inside the lower cutoff.
Qualifies(e) == e.actor.login = user /\ in_timestamp(e)

\* The ceiling test off by one: page >= pagelimit.
ExceedsPagelimitEarly(p) == p >= pagelimit

\* The ceiling test one page late: page > pagelimit + 1.
ExceedsPagelimitLate(p) == p > pagelimit + 1

\* if page > pagelimit { bail!(..) }
ExceedsPagelimit(p) == p > pagelimit

\* The page index advanced by two.
NextPageSkips(p) == p + 2

\* page += 1
NextPage(p) == p + 1

\* The events kept from a page put in front of r.
AccumulateInFront(acc, kept) == kept \o acc

\* r.push(Box::new(e)) for each event kept from the page, in page order.
Accumulate(acc, kept) == acc \o kept

(***************************************************************************)
(* parse_events                                                            *)
(***************************************************************************)
\* RepoEvents::default()
DefaultRepoEvents ==
    [pr_action |-> EmptyMap, reviewed |-> EmptyMap, pushed |-> 0,
     issues |-> EmptyMap, titles |-> EmptyMap]

\* t > end
TooNew(e) == e.created_at > end

\* The lower bound with the boundary on the wrong side: t <= start.
TooOldInclusive(e) == e.created_at <= start

\* t < start
TooOld(e) == e.created_at < start

\* The payload fields the match arm of e.typ unwraps are all present.
WellFormed(e) ==
    CASE e.typ = "PullRequestEvent" ->
            e.payload.pull_request # None /\ e.payload.action # None
      [] e.typ = "PullRequestReviewEvent" ->
            e.payload.review # None /\ e.payload.pull_request # None
      [] e.typ = "IssueCommentEvent" -> e.payload.issue # None
      [] OTHER -> TRUE

\* match review.state.as_str()
Reaction(state) == IF state = "approved" THEN "Approved" ELSE "Other"

\* The title recorded with insert() in place of entry().or_insert_with():
\* the last title seen replaces the earlier one.
RecordTitleOverwrite(titles, url, title) ==
    [x \in DOMAIN titles \cup {url} |-> IF x = url THEN title ELSE titles[x]]

\* titles.entry(url).or_insert_with(|| title)
RecordTitle(titles, url, title) == OrInsert(titles, url, title)

\* The match on e.typ, for an event whose unwraps succeed: the RepoEvents of
\* the event's repository after the arm has run.
\* The push arm as an assignment in place of the increment.
PushArmSet(ev) == [ev EXCEPT !.pushed = 1]

\* "PushEvent" => { repoevents.pushed += 1; }
PushArm(ev) == [ev EXCEPT !.pushed = @ + 1]

\* The pull request arm without the match on the action: every action is
\* recorded as an opened pull request.
PullRequestArmAnyAction(ev, e) ==
    LET pr == unwrap(e.payload.pull_request)
    IN  [ev EXCEPT
            !.pr_action = OrInsert(@, pr.html_url, "Opened"),
            !.titles = RecordTitle(@, pr.html_url, pr.title)]

\* "PullRequestEvent" => ..: any action but "opened" continues.
PullRequestArm(ev, e) ==
    LET pr == unwrap(e.payload.pull_request)
        action == unwrap(e.payload.action)
    IN  IF action = "opened"
        THEN [ev EXCEPT
                !.pr_action = OrInsert(@, pr.html_url, "Opened"),
                !.titles = RecordTitle(@, pr.html_url, pr.title)]
        ELSE ev

\* The review arm with insert() in place of entry().or_insert_with(): the
\* reaction of the last review replaces the earlier one.
ReviewArmOverwrites(ev, e) ==
    LET review == unwrap(e.payload.review)
        pr == unwrap(e.payload.pull_request)
    IN  [ev EXCEPT
            !.reviewed = [x \in DOMAIN @ \cup {pr.html_url} |->
                            IF x = pr.html_url THEN Reaction(review.state) ELSE @[x]],
            !.titles = RecordTitle(@, pr.html_url, pr.title)]

\* "PullRequestReviewEvent" => ..
ReviewArm(ev, e) ==
    LET review == unwrap(e.payload.review)
        pr == unwrap(e.payload.pull_request)
    IN  [ev EXCEPT
            !.reviewed = OrInsert(@, pr.html_url, Reaction(review.state)),
            !.titles = RecordTitle(@, pr.html_url, pr.title)]

\* The issue comment arm without the title (lines 236-239 left out).
IssueCommentArmNoTitle(ev, e) ==
    LET issue == unwrap(e.payload.issue)
    IN  [ev EXCEPT
            !.issues = OrInsert(@, issue.html_url,
                                [state |-> None, commented |-> TRUE])]

\* "IssueCommentEvent" => ..
IssueCommentArm(ev, e) ==
    LET issue == unwrap(e.payload.issue)
    IN  [ev EXCEPT
            !.issues = OrInsert(@, issue.html_url,
                                [state |-> None, commented |-> TRUE]),
            !.titles = RecordTitle(@, issue.html_url, issue.title)]

Classify(ev, e) ==
    CASE e.typ = "PushEvent" -> PushArm(ev)
      [] e.typ = "PullRequestEvent" -> PullRequestArm(ev, e)
      [] e.typ = "PullRequestReviewEvent" -> ReviewArm(ev, e)
      [] e.typ = "IssueCommentEvent" -> IssueCommentArm(ev, e)
      [] OTHER -> ev

\* let repoevents = r.entry(e.repo.name.clone()).or_default(), then the match.
FoldInWindow(rs, e) ==
    LET entered == OrInsert(rs, e.repo.name, DefaultRepoEvents)
    IN  [entered EXCEPT ![e.repo.name] = Classify(@, e)]

\* The locals of parse_events: r, before, after, and whether an unwrap() has
\* panicked.
ParseState(rs, b, a) == [repos |-> rs, before |-> b, after |-> a, panicked |-> FALSE]

\* The loop body with `if let Some(..) .. else { continue }` in place of the
\* unwrap()s: an event with a missing payload field is skipped.
FoldSkipsMalformed(st, e) ==
    IF TooNew(e) THEN [st EXCEPT !.after = @ + 1]
    ELSE IF TooOld(e) THEN [st EXCEPT !.before = @ + 1]
    ELSE IF ~WellFormed(e) THEN st
    ELSE [st EXCEPT !.repos = FoldInWindow(@, e)]

\* The body of the for loop of parse_events, for the event e.
Fold(st, e) ==
    IF TooNew(e) THEN [st EXCEPT !.after = @ + 1]
    ELSE IF TooOld(e) THEN [st EXCEPT !.before = @ + 1]
    ELSE IF ~WellFormed(e) THEN [st EXCEPT !.panicked = TRUE]
    ELSE [st EXCEPT !.repos = FoldInWindow(@, e)]

\* m without the keys in ks: map.remove(k) for each k of ks.
RemoveAll(m, ks) == [x \in DOMAIN m \ ks |-> m[x]]

\* The dedup without events.reviewed.remove(url) in the first loop.
DedupRepoKeepsReviewed(ev) ==
    LET opened == DOMAIN ev.pr_action
        issues1 == RemoveAll(ev.issues, opened)
    IN  [ev EXCEPT !.issues = RemoveAll(issues1, DOMAIN ev.reviewed)]

\* The two loops that end parse_events, for one repository.
DedupRepo(ev) ==
    LET opened == DOMAIN ev.pr_action
        reviewed1 == RemoveAll(ev.reviewed, opened)
        issues1 == RemoveAll(ev.issues, opened)
    IN  [ev EXCEPT !.reviewed = reviewed1,
                   !.issues = RemoveAll(issues1, DOMAIN reviewed1)]

Dedup(rs) == [name \in DOMAIN rs |-> DedupRepo(rs[name])]

\* The for loop of parse_events over the first n events of a list.
RECURSIVE FoldAll(_, _)
FoldAll(events, n) ==
    IF n = 0 THEN ParseState(EmptyMap, 0, 0)
    ELSE LET st == FoldAll(events, n - 1)
         IN  IF st.panicked THEN st ELSE Fold(st, events[n])

\* parse_events(events, &start, &end): the RepoEventParseData it returns
\* (panicked: it does not return).
parse_events(events) ==
    LET st == FoldAll(events, Len(events))
    IN  IF st.panicked THEN st ELSE [st EXCEPT !.repos = Dedup(@)]

(***************************************************************************)
(* print_events                                                            *)
(***************************************************************************)
\* format!("[{}]({})", title.trim(), link.trim())
link(l, title) == <<"[">> \o Trim(title) \o <<"](">> \o Trim(l) \o <<")">>

\* events.titles.get(url).map(|s| s.as_str()).unwrap_or("")
TitleOf(ev, url) == IF url \in DOMAIN ev.titles THEN ev.titles[url] ELSE <<>>

RECURSIVE Items(_, _, _)
Items(ev, urls, kind) ==
    IF urls = <<>> THEN <<>>
    ELSE <<Line(kind, link(Head(urls), TitleOf(ev, Head(urls))))>>
         \o Items(ev, Tail(urls), kind)

\* The reviewed items: the prefix depends on the reaction.
RECURSIVE ReviewedItems(_, _)
ReviewedItems(ev, urls) ==
    IF urls = <<>> THEN <<>>
    ELSE <<Line(IF ev.reviewed[Head(urls)] = "Approved"
                THEN "reviewed approved" ELSE "reviewed other",
                link(Head(urls), TitleOf(ev, Head(urls))))>>
         \o ReviewedItems(ev, Tail(urls))

\* What print_events prints for one repository.
RepoSection(repo, ev) ==
    <<Line("header", link(<<"https://github.com/">> \o repo, repo))>>
    \o (IF DOMAIN ev.pr_action # {}
        THEN <<Line("Pull Requests: ", <<>>)>>
             \o Items(ev, SortedKeys(DOMAIN ev.pr_action), "opened")
             \o <<Line("blank", <<>>)>>
        ELSE <<>>)
    \o (IF DOMAIN ev.reviewed # {}
        THEN <<Line("Reviewed: ", <<>>)>>
             \o ReviewedItems(ev, SortedKeys(DOMAIN ev.reviewed))
             \o <<Line("blank", <<>>)>>
        ELSE <<>>)
    \o (IF DOMAIN ev.issues # {}
        THEN <<Line("Commented: ", <<>>)>>
             \o Items(ev, SortedKeys(DOMAIN ev.issues), "commented")
             \o <<Line("blank", <<>>)>>
        ELSE <<>>)
    \o (IF ev.pushed > 0
        THEN <<Line("Pushed", ev.pushed), Line("blank", <<>>)>>
        ELSE <<>>)

RECURSIVE RepoSections(_, _)
RepoSections(rs, names) ==
    IF names = <<>> THEN <<>>
    ELSE RepoSection(Head(names), rs[Head(names)]) \o RepoSections(rs, Tail(names))

\* Everything print_events prints.
Report(rs, b, a) ==
    <<Line("counters", <<b, a>>)>> \o RepoSections(rs, SortedKeys(DOMAIN rs))

Init ==
    /\ pc = "main"
    /\ from_file = FALSE
    /\ served = <<>>
    /\ page = 0
    /\ r = <<>>
    /\ raw_events = <<>>
    /\ next = 1
    /\ repos = EmptyMap
    /\ before = 0
    /\ after = 0
    /\ stdout = <<>>
    /\ err = ""

(***************************************************************************)
(* main                                                                    *)
(***************************************************************************)
\* opt.from_file is Some and the file deserializes: raw_events is its content.
LoadFile(f) ==
    /\ pc = "main"
    /\ from_file' = TRUE
    /\ raw_events' = f
    /\ stdout' = Append(stdout, Line("Events from", <<start, end>>))
    /\ pc' = "parse_events"
    /\ UNCHANGED <<fetch_vars, parse_vars, err>>

\* opt.from_file is Some and File::open or serde_json::from_reader fails.
LoadFileErr ==
    /\ pc = "main"
    /\ from_file' = TRUE
    /\ pc' = "error"
    /\ err' = "io"
    /\ UNCHANGED <<raw_events, stdout, fetch_vars, parse_vars>>

\* opt.from_file is None: main calls my_events, which starts at page 0 with
\* an empty r.
CallMyEvents ==
    /\ pc = "main"
    /\ from_file' = FALSE
    /\ page' = 0
    /\ r' = <<>>
    /\ pc' = "my_events"
    /\ UNCHANGED <<served, raw_events, stdout, parse_vars, err>>

\* One iteration of the loop of my_events in which query() returns the page p.
QueryPage(p) ==
    /\ pc = "my_events"
    /\ served' = Append(served, p)
    /\ LET kept == SelectSeq(p, Qualifies)
           found == kept # <<>>
           queried == Append(stdout, Line("Querying page", page))
       IN  /\ r' = Accumulate(r, kept)
           /\ IF ~found
              THEN \* return Ok(r); main prints the window and calls parse_events
                   /\ raw_events' = r'
                   /\ stdout' = Append(queried, Line("Events from", <<start, end>>))
                   /\ pc' = "parse_events"
                   /\ UNCHANGED <<page, err>>
              ELSE IF ExceedsPagelimit(page)
              THEN \* bail!("Would exceed pagelimit {}")
                   /\ stdout' = queried
                   /\ pc' = "error"
                   /\ err' = "Would exceed pagelimit"
                   /\ UNCHANGED <<raw_events, page>>
              ELSE /\ stdout' = queried
                   /\ page' = NextPage(page)
                   /\ UNCHANGED <<raw_events, pc, err>>
    /\ UNCHANGED <<from_file, parse_vars>>

\* A failed query() that is retried: the loop goes on to request the page
\* again instead of returning the error.
QueryErrRetried ==
    /\ pc = "my_events"
    /\ Len(stdout) < 2 * pagelimit
    /\ stdout' = Append(stdout, Line("Querying page", page))
    /\ UNCHANGED <<pc, err, from_file, served, page, r, raw_events, parse_vars>>

\* One iteration of the loop of my_events in which query() fails.
QueryErr ==
    /\ pc = "my_events"
    /\ stdout' = Append(stdout, Line("Querying page", page))
    /\ pc' = "error"
    /\ err' = "query"
    /\ UNCHANGED <<from_file, served, page, r, raw_events, parse_vars>>

\* One iteration of the for loop of parse_events.
ParseEvent ==
    /\ pc = "parse_events"
    /\ next <= Len(raw_events)
    /\ LET st == Fold(ParseState(repos, before, after), raw_events[next])
       IN  /\ repos' = st.repos
           /\ before' = st.before
           /\ after' = st.after
           /\ IF st.panicked
              THEN \* an unwrap() of None panics: the process aborts
                   /\ pc' = "panicked"
                   /\ err' = "unwrap on None"
                   /\ next' = next
              ELSE /\ next' = next + 1
                   /\ UNCHANGED <<pc, err>>
    /\ UNCHANGED <<from_file, fetch_vars, raw_events, stdout>>

\* The events are exhausted: the dedup loops run and parse_events returns.
ParseReturn ==
    /\ pc = "parse_events"
    /\ next > Len(raw_events)
    /\ repos' = Dedup(repos)
    /\ pc' = "print_events"
    /\ UNCHANGED <<from_file, fetch_vars, raw_events, next, before, after, stdout, err>>

\* print_events(&events); Ok(())
PrintEvents ==
    /\ pc = "print_events"
    /\ stdout' = stdout \o Report(repos, before, after)
    /\ pc' = "done"
    /\ UNCHANGED <<from_file, fetch_vars, raw_events, parse_vars, err>>

Next ==
    \/ pc = "main" /\ \E f \in Files : LoadFile(f)
    \/ LoadFileErr
    \/ CallMyEvents
    \/ pc = "my_events" /\ \E p \in Pages : QueryPage(p)
    \/ QueryErr
    \/ ParseEvent
    \/ ParseReturn
    \/ PrintEvents

Spec == Init /\ [][Next]_vars

(***************************************************************************)
(* Vocabulary of the properties, stated on the input and the output of a   *)
(* run rather than on the operators of the program.                        *)
(***************************************************************************)
AllRepos == {e.repo.name : e \in Events}
AllUrls == {U1, U2}

\* The run fetched from the live source and my_events has returned Ok(r).
LiveReturned == ~from_file /\ pc \in {"parse_events", "print_events", "panicked", "done"}

\* parse_events has returned.
Parsed == pc \in {"print_events", "done"}

InRange(e) == start <= e.created_at /\ e.created_at <= end

\* The event is of the user and newer than the lower cutoff.
NewerOwn(e) == e.actor.login = user /\ e.created_at > start
HasNewerOwn(p) == \E j \in 1..Len(p) : NewerOwn(p[j])

IsIn(e, events) == \E k \in 1..Len(events) : events[k] = e

\* The number of printed lines of a kind.
Printed(kind) == Cardinality({k \in 1..Len(stdout) : stdout[k].kind = kind})

\* The in-window event e is an opened pull request, a review, an issue comment
\* on the target url of the repository repo.
Opens(e, repo, url) ==
    /\ InRange(e) /\ e.repo.name = repo /\ e.typ = "PullRequestEvent"
    /\ e.payload.action = Some("opened") /\ e.payload.pull_request # None
    /\ unwrap(e.payload.pull_request).html_url = url
Reviews(e, repo, url) ==
    /\ InRange(e) /\ e.repo.name = repo /\ e.typ = "PullRequestReviewEvent"
    /\ e.payload.pull_request # None
    /\ unwrap(e.payload.pull_request).html_url = url
Comments(e, repo, url) ==
    /\ InRange(e) /\ e.repo.name = repo /\ e.typ = "IssueCommentEvent"
    /\ e.payload.issue # None
    /\ unwrap(e.payload.issue).html_url = url

\* The buckets of the aggregate that hold url for repo.
BucketsOf(repo, url) ==
    IF repo \notin DOMAIN repos THEN {}
    ELSE {b \in {"pr_action", "reviewed", "issues"} : url \in DOMAIN repos[repo][b]}

(***************************************************************************)
(* C1  Dedup precedence.  Once parse_events has returned, every target url *)
(* of every repository is in at most one of pr_action, reviewed, issues,   *)
(* and it is in the bucket of the highest-precedence kind (opened, then    *)
(* reviewed, then commented) among the in-window events that referenced it *)
(* in that repository, whatever the order of those events in the input.    *)
(***************************************************************************)
C1_DedupPrecedence ==
    Parsed =>
        \A repo \in AllRepos, url \in AllUrls :
            LET idx == 1..Len(raw_events)
                opened == \E k \in idx : Opens(raw_events[k], repo, url)
                reviewed == \E k \in idx : Reviews(raw_events[k], repo, url)
                commented == \E k \in idx : Comments(raw_events[k], repo, url)
            IN  BucketsOf(repo, url) =
                    IF opened THEN {"pr_action"}
                    ELSE IF reviewed THEN {"reviewed"}
                    ELSE IF commented THEN {"issues"}
                    ELSE {}

\* A comment, then a review, then the opening of the same pull request: the
\* later "opened" has taken the url out of the two other buckets.
C1_Witness ==
    /\ pc = "done"
    /\ Len(raw_events) = 3
    /\ Comments(raw_events[1], RA, U1)
    /\ Reviews(raw_events[2], RA, U1)
    /\ Opens(raw_events[3], RA, U1)
    /\ BucketsOf(RA, U1) = {"pr_action"}

(***************************************************************************)
(* C2  Single-cutoff window boundary.  In a run that fetches from the live *)
(* source, an event of the user whose created_at equals start is in the    *)
(* list my_events returns and in the aggregate, and an event strictly      *)
(* before start is not in the list.                                        *)
(***************************************************************************)
C2_StartIsIncluded ==
    LiveReturned =>
        \A i \in 1..Len(served) : \A j \in 1..Len(served[i]) :
            LET e == served[i][j]
            IN  e.actor.login = user =>
                    /\ e.created_at = start =>
                            /\ IsIn(e, raw_events)
                            /\ pc = "done" => e.repo.name \in DOMAIN repos
                    /\ e.created_at < start => ~IsIn(e, raw_events)

(***************************************************************************)
(* C3  Pagination ceiling.  my_events never requests more than             *)
(* pagelimit + 2 pages; when the index of the page just requested exceeds  *)
(* pagelimit and every page requested so far held a qualifying event, it   *)
(* fails with "Would exceed pagelimit", returns no list and nothing is     *)
(* aggregated or rendered; and it fails so only in that case.              *)
(***************************************************************************)
C3_PaginationCeiling ==
    LET all_qualify == \A k \in 1..Len(served) : HasNewerOwn(served[k])
    IN  /\ Len(served) <= pagelimit + 2
        /\ Printed("Querying page") <= pagelimit + 2
        /\ (Len(served) = pagelimit + 2 /\ all_qualify) =>
                /\ pc = "error"
                /\ err = "Would exceed pagelimit"
                /\ raw_events = <<>>
                /\ repos = EmptyMap
                /\ Printed("counters") = 0
        /\ err = "Would exceed pagelimit" =>
                /\ page > pagelimit
                /\ Len(served) = page + 1
                /\ all_qualify

\* Seven pages, each with a qualifying event: the fetch has failed.
C3_Witness ==
    /\ pc = "error"
    /\ err = "Would exceed pagelimit"
    /\ Len(served) = pagelimit + 2
    /\ \A k \in 1..Len(served) : HasNewerOwn(served[k])

\* The events of the first n pages that are of the user and newer than the
\* lower cutoff, in the order served.
RECURSIVE NewerOwnOf(_, _)
NewerOwnOf(pages, n) ==
    IF n = 0 THEN <<>>
    ELSE NewerOwnOf(pages, n - 1) \o SelectSeq(pages[n], NewerOwn)

(***************************************************************************)
(* C4  Fetch termination.  If the k-th page served is the first one with   *)
(* no qualifying event, my_events has made exactly k requests and has      *)
(* returned the qualifying events of the k-1 pages before it, in order;    *)
(* and my_events returns only on a page with no qualifying event, so a     *)
(* page that mixes qualifying and other events does not stop the loop.     *)
(***************************************************************************)
C4_FetchTermination ==
    ~from_file =>
        /\ \A k \in 1..Len(served) :
                (~HasNewerOwn(served[k]) /\ \A j \in 1..(k - 1) : HasNewerOwn(served[j])) =>
                    /\ Len(served) = k
                    /\ Printed("Querying page") = k
                    /\ LiveReturned
                    /\ raw_events = NewerOwnOf(served, k - 1)
        /\ LiveReturned =>
                /\ served # <<>>
                /\ ~HasNewerOwn(served[Len(served)])

\* The third page is the first without a qualifying event, and one of the two
\* pages before it mixes a qualifying event with one that does not qualify.
C4_Witness ==
    /\ ~from_file /\ pc = "done"
    /\ Len(served) = 3
    /\ Printed("Querying page") = 3
    /\ ~HasNewerOwn(served[3])
    /\ \E j \in 1..2 : \E a, b \in 1..Len(served[j]) :
            NewerOwn(served[j][a]) /\ ~NewerOwn(served[j][b])
    /\ Len(raw_events) = 2

(***************************************************************************)
(* C5  Two-sided window boundary.  A step of the loop of parse_events on   *)
(* an event newer than end adds one to after and changes nothing else; on  *)
(* an event older than start it adds one to before and changes nothing     *)
(* else; on an event with start <= created_at <= end it changes neither    *)
(* counter.                                                                *)
(***************************************************************************)
C5_Step ==
    (pc = "parse_events" /\ next <= Len(raw_events)) =>
        LET e == raw_events[next]
        IN  /\ e.created_at > end =>
                    /\ after' = after + 1
                    /\ UNCHANGED <<repos, before, pc, stdout>>
            /\ e.created_at < start =>
                    /\ before' = before + 1
                    /\ UNCHANGED <<repos, after, pc, stdout>>
            /\ (start <= e.created_at /\ e.created_at <= end) =>
                    UNCHANGED <<before, after>>

\* C5: every step of a run is a step as C5_Step describes.
C5_TwoSidedWindow == [][C5_Step]_vars

\* A file with an event newer than end, one older than start and one at start.
C5_Witness ==
    /\ pc = "done"
    /\ Len(raw_events) = 3
    /\ raw_events[1].created_at > end
    /\ raw_events[2].created_at < start
    /\ raw_events[3].created_at = start
    /\ before = 1 /\ after = 1
    /\ DOMAIN repos = {raw_events[3].repo.name}

\* The type of e implies a payload field that is absent.
Malformed(e) ==
    \/ e.typ = "PullRequestEvent"
            /\ (e.payload.pull_request = None \/ e.payload.action = None)
    \/ e.typ = "PullRequestReviewEvent"
            /\ (e.payload.review = None \/ e.payload.pull_request = None)
    \/ e.typ = "IssueCommentEvent" /\ e.payload.issue = None

(***************************************************************************)
(* C6  Malformed payload is fatal.  As claimed: whenever the events handed *)
(* to parse_events contain an event whose type implies a payload field     *)
(* that is absent, the run aborts and no report is rendered.               *)
(***************************************************************************)
C6_AnyMalformedAborts ==
    (\E k \in 1..Len(raw_events) : Malformed(raw_events[k])) =>
        /\ ~Parsed
        /\ Printed("counters") = 0

(***************************************************************************)
(* C6 as amended.  Whenever the events handed to parse_events contain a    *)
(* malformed event whose created_at is inside the window [start, end], the *)
(* loop never gets past it, parse_events never returns and no report is    *)
(* rendered; the step of the loop on that event panics.  (A malformed      *)
(* event outside the window is counted in before or after like any other.) *)
(***************************************************************************)
C6_Inv ==
    \A k \in 1..Len(raw_events) :
        (InRange(raw_events[k]) /\ Malformed(raw_events[k])) =>
            /\ pc \in {"parse_events", "panicked"}
            /\ next <= k
            /\ Printed("counters") = 0
            /\ Printed("header") = 0

C6_Step ==
    (/\ pc = "parse_events" /\ next <= Len(raw_events)
     /\ InRange(raw_events[next]) /\ Malformed(raw_events[next])) =>
        /\ pc' = "panicked"
        /\ UNCHANGED <<repos, before, after, stdout>>

\* C6 as amended: C6_Inv holds in every state and every step is as C6_Step
\* describes.
C6_InWindowMalformedAborts == [](C6_Inv) /\ [][C6_Step]_vars

\* The run has panicked on a malformed third event after two folded events.
C6_Witness ==
    /\ pc = "panicked"
    /\ next = 3
    /\ InRange(raw_events[3]) /\ Malformed(raw_events[3])
    /\ DOMAIN repos # {}

RecordsTitle(e, repo, url) ==
    Opens(e, repo, url) \/ Reviews(e, repo, url) \/ Comments(e, repo, url)

TitleIn(e) ==
    IF e.typ = "IssueCommentEvent" THEN unwrap(e.payload.issue).title
    ELSE unwrap(e.payload.pull_request).title

(***************************************************************************)
(* C7  First-seen title stability.  Among the in-window events the loop    *)
(* has folded that record a title for a target url of a repository (an     *)
(* opened pull request, a review, an issue comment), the title stored in   *)
(* titles is that of the first in input order, whatever the kinds of the   *)
(* events and whichever bucket the url ends in.                            *)
(***************************************************************************)
C7_FirstSeenTitle ==
    pc # "panicked" =>
        \A repo \in AllRepos, url \in AllUrls :
            LET idx == {k \in 1..(next - 1) : RecordsTitle(raw_events[k], repo, url)}
            IN  idx # {} =>
                    LET first == CHOOSE k \in idx : \A o \in idx : k <= o
                    IN  /\ repo \in DOMAIN repos
                        /\ url \in DOMAIN repos[repo].titles
                        /\ repos[repo].titles[url] = TitleIn(raw_events[first])

\* A comment titled T2, then the opening of the same pull request titled T1:
\* the url ends in pr_action under the title of the comment.
C7_Witness ==
    /\ pc = "done"
    /\ Len(raw_events) = 2
    /\ Comments(raw_events[1], RA, U1) /\ TitleIn(raw_events[1]) = T2
    /\ Opens(raw_events[2], RA, U1) /\ TitleIn(raw_events[2]) = T1
    /\ BucketsOf(RA, U1) = {"pr_action"}
    /\ repos[RA].titles[U1] = T2

HeaderOf(repo) == link(<<"https://github.com/">> \o repo, repo)

HeaderPrinted(repo) ==
    \E k \in 1..Len(stdout) :
        stdout[k].kind = "header" /\ stdout[k].text = HeaderOf(repo)

IsEmpty(ev) ==
    /\ DOMAIN ev.pr_action = {} /\ DOMAIN ev.reviewed = {}
    /\ DOMAIN ev.issues = {} /\ ev.pushed = 0

(***************************************************************************)
(* C8  Empty aggregate renders cleanly.  As claimed: print_events prints   *)
(* no header for a repository whose RepoEvents has every bucket empty and  *)
(* pushed = 0.                                                             *)
(***************************************************************************)
C8_NoEmptyHeader ==
    pc = "done" =>
        \A repo \in DOMAIN repos :
            IsEmpty(repos[repo]) => ~HeaderPrinted(repo)

\* The events of the first n pages, in the order served.
RECURSIVE Concat(_, _)
Concat(pages, n) == IF n = 0 THEN <<>> ELSE Concat(pages, n - 1) \o pages[n]

(***************************************************************************)
(* C9  Alternate source equivalence.  As claimed: a run that fetched the   *)
(* events page by page ends with the aggregate that parse_events produces  *)
(* from a capture file holding the same events, in the same order.         *)
(***************************************************************************)
C9_SameAsFromFile ==
    (~from_file /\ pc = "done") =>
        repos = parse_events(Concat(served, Len(served))).repos

IsPush(e, repo) == InRange(e) /\ e.repo.name = repo /\ e.typ = "PushEvent"

(***************************************************************************)
(* C10  Push counting.  For every repository, pushed is the number of      *)
(* in-window PushEvents of that repository folded so far, and while those  *)
(* are its only in-window events its pr_action, reviewed, issues and       *)
(* titles are empty; the step of the loop on an in-window PushEvent adds   *)
(* one to pushed of its repository and changes nothing else.               *)
(***************************************************************************)
C10_Count ==
    pc # "panicked" =>
        \A repo \in AllRepos :
            LET folded == {k \in 1..(next - 1) :
                            InRange(raw_events[k]) /\ raw_events[k].repo.name = repo}
                pushes == {k \in folded : IsPush(raw_events[k], repo)}
            IN  /\ pushes # {} => repo \in DOMAIN repos
                /\ repo \in DOMAIN repos => repos[repo].pushed = Cardinality(pushes)
                /\ (pushes # {} /\ pushes = folded) =>
                        /\ DOMAIN repos[repo].pr_action = {}
                        /\ DOMAIN repos[repo].reviewed = {}
                        /\ DOMAIN repos[repo].issues = {}
                        /\ DOMAIN repos[repo].titles = {}

C10_Step ==
    (/\ pc = "parse_events" /\ next <= Len(raw_events)
     /\ raw_events[next].typ = "PushEvent" /\ InRange(raw_events[next])) =>
        LET repo == raw_events[next].repo.name
            old == IF repo \in DOMAIN repos THEN repos[repo]
                   ELSE [pr_action |-> EmptyMap, reviewed |-> EmptyMap, pushed |-> 0,
                         issues |-> EmptyMap, titles |-> EmptyMap]
        IN  /\ DOMAIN repos' = DOMAIN repos \cup {repo}
            /\ repos'[repo] = [old EXCEPT !.pushed = old.pushed + 1]
            /\ \A o \in DOMAIN repos \ {repo} : repos'[o] = repos[o]
            /\ UNCHANGED <<before, after, pc, stdout, err>>

\* C10: C10_Count holds in every state and every step is as C10_Step describes.
C10_PushCounting == [](C10_Count) /\ [][C10_Step]_vars

\* Three in-window pushes to one repository and nothing else.
C10_Witness ==
    /\ pc = "done"
    /\ Len(raw_events) = 3
    /\ \A k \in 1..3 : IsPush(raw_events[k], RA)
    /\ repos[RA].pushed = 3
    /\ DOMAIN repos[RA].titles = {}

\* What the aggregate holds for a repository, an absent repository holding
\* nothing.
ContentsOf(rs, repo) ==
    IF repo \in DOMAIN rs THEN rs[repo]
    ELSE [pr_action |-> EmptyMap, reviewed |-> EmptyMap, pushed |-> 0,
          issues |-> EmptyMap, titles |-> EmptyMap]

\* The type of e is not one parse_events classifies, or e is a well-formed
\* PullRequestEvent whose action is not "opened".
Unrecognized(e) ==
    \/ e.typ \notin {"PushEvent", "PullRequestEvent", "PullRequestReviewEvent",
                     "IssueCommentEvent"}
    \/ /\ e.typ = "PullRequestEvent" /\ ~Malformed(e)
       /\ e.payload.action # Some("opened")

(***************************************************************************)
(* C11  Unrecognized event type or action.  The step of the loop of        *)
(* parse_events on an in-window event of an unclassified type, or on a     *)
(* well-formed PullRequestEvent whose action is not "opened", leaves the   *)
(* buckets, titles and pushed of every repository and both counters as     *)
(* they were, prints nothing, and the loop goes on to the next event.      *)
(***************************************************************************)
C11_Step ==
    (/\ pc = "parse_events" /\ next <= Len(raw_events)
     /\ InRange(raw_events[next]) /\ Unrecognized(raw_events[next])) =>
        /\ \A repo \in AllRepos : ContentsOf(repos', repo) = ContentsOf(repos, repo)
        /\ DOMAIN repos' \subseteq DOMAIN repos \cup {raw_events[next].repo.name}
        /\ next' = next + 1
        /\ UNCHANGED <<before, after, pc, err, stdout>>

\* C11: every step of a run is a step as C11_Step describes.
C11_UnrecognizedContributesNothing == [][C11_Step]_vars

\* A push, then a WatchEvent and a closed pull request of the same repository:
\* the run ends with the push as the only content.
C11_Witness ==
    /\ pc = "done"
    /\ Len(raw_events) = 3
    /\ IsPush(raw_events[1], RA)
    /\ raw_events[2].typ = "WatchEvent" /\ InRange(raw_events[2])
    /\ raw_events[3].typ = "PullRequestEvent" /\ InRange(raw_events[3])
    /\ Unrecognized(raw_events[3])
    /\ repos[RA].pushed = 1
    /\ BucketsOf(RA, U1) = {}
    /\ DOMAIN repos[RA].titles = {}

\* A query() has failed: a page was requested and none was served for it.
QueryFailed == Printed("Querying page") > Len(served)

(***************************************************************************)
(* C12  Transport failure aborts without retry.  Once a query() has        *)
(* failed, main has ended with that error: the failed page was requested   *)
(* once, no page is requested after it, the events kept from the earlier   *)
(* pages are not returned, nothing is aggregated and nothing is rendered;  *)
(* and no step follows.                                                    *)
(***************************************************************************)
C12_Inv ==
    QueryFailed =>
        /\ pc = "error"
        /\ err = "query"
        /\ Printed("Querying page") = Len(served) + 1
        /\ raw_events = <<>>
        /\ repos = EmptyMap /\ next = 1 /\ before = 0 /\ after = 0
        /\ Printed("Events from") = 0
        /\ Printed("counters") = 0

C12_Step == QueryFailed => UNCHANGED vars

\* C12: C12_Inv holds in every state and every step is as C12_Step describes.
C12_TransportFailureAborts == [](C12_Inv) /\ [][C12_Step]_vars

\* The third query() fails after two pages whose events were kept in r.
C12_Witness ==
    /\ pc = "error"
    /\ QueryFailed
    /\ Len(served) = 2
    /\ Len(r) >= 2
    /\ raw_events = <<>>

\* The position of the header of a repository in the output.
HeaderAt(repo) ==
    CHOOSE k \in 1..Len(stdout) :
        stdout[k].kind = "header" /\ stdout[k].text = HeaderOf(repo)

\* The positions of the lines printed for a repository: those after its
\* header and before the next header.
SectionOf(repo) ==
    {k \in (HeaderAt(repo) + 1)..Len(stdout) :
        \A j \in (HeaderAt(repo) + 1)..k : stdout[j].kind # "header"}

\* The place of a kind of line in the order pull requests, reviewed,
\* commented, push count.
RankOf(kind) ==
    CASE kind \in {"Pull Requests: ", "opened"} -> 1
      [] kind \in {"Reviewed: ", "reviewed approved", "reviewed other"} -> 2
      [] kind \in {"Commented: ", "commented"} -> 3
      [] kind = "Pushed" -> 4

(***************************************************************************)
(* C13  Render order.  print_events prints one header per repository of    *)
(* the aggregate, in ascending order of the repository names; under each   *)
(* header the sections come in the order pull requests, reviewed,          *)
(* commented, push count; a section is printed, with one item per url,     *)
(* exactly when its bucket is not empty, and the push line exactly when    *)
(* pushed > 0.                                                             *)
(***************************************************************************)
C13_RenderOrder ==
    pc = "done" =>
        /\ Printed("header") = Cardinality(DOMAIN repos)
        /\ \A repo \in DOMAIN repos : HeaderPrinted(repo)
        /\ \A a, b \in DOMAIN repos : StrLt(a, b) => HeaderAt(a) < HeaderAt(b)
        /\ \A repo \in DOMAIN repos :
            LET ev == repos[repo]
                lines == {k \in SectionOf(repo) : stdout[k].kind # "blank"}
                count(kinds) == Cardinality({k \in lines : stdout[k].kind \in kinds})
                one(b) == IF b THEN 1 ELSE 0
            IN  /\ count({"Pull Requests: "}) = one(DOMAIN ev.pr_action # {})
                /\ count({"opened"}) = Cardinality(DOMAIN ev.pr_action)
                /\ count({"Reviewed: "}) = one(DOMAIN ev.reviewed # {})
                /\ count({"reviewed approved", "reviewed other"})
                        = Cardinality(DOMAIN ev.reviewed)
                /\ count({"Commented: "}) = one(DOMAIN ev.issues # {})
                /\ count({"commented"}) = Cardinality(DOMAIN ev.issues)
                /\ count({"Pushed"}) = one(ev.pushed > 0)
                /\ \A j, k \in lines :
                        j < k => RankOf(stdout[j].kind) <= RankOf(stdout[k].kind)
                /\ \A k \in lines :
                        stdout[k].kind \in {"Pull Requests: ", "Reviewed: ", "Commented: "}
                            => RankOf(stdout[k + 1].kind) = RankOf(stdout[k].kind)

\* Two repositories; the first has an opened pull request and a reviewed
\* one, the second a comment.
C13_Witness ==
    /\ pc = "done"
    /\ DOMAIN repos = {RA, RB}
    /\ HeaderAt(RA) < HeaderAt(RB)
    /\ DOMAIN repos[RA].pr_action # {} /\ DOMAIN repos[RA].reviewed # {}
    /\ DOMAIN repos[RB].issues # {}
    /\ Printed("Pull Requests: ") = 1 /\ Printed("Reviewed: ") = 1
    /\ Printed("Commented: ") = 1

\* The events the source of the run has delivered, in order: the content of
\* the capture file, or the pages served.
Delivered == IF from_file THEN raw_events ELSE Concat(served, Len(served))

(***************************************************************************)
(* C14  Exclusions are tallied end to end.  As claimed: when a run ends,   *)
(* every event of the user that the source delivered with created_at       *)
(* before start is counted in before, and every one with created_at after  *)
(* end is counted in after, also when the events came through my_events.   *)
(***************************************************************************)
C14_ExclusionsTallied ==
    pc = "done" =>
        LET own == {k \in 1..Len(Delivered) : Delivered[k].actor.login = user}
        IN  /\ before >= Cardinality({k \in own : Delivered[k].created_at < start})
            /\ after >= Cardinality({k \in own : Delivered[k].created_at > end})

\* The reaction a review event stands for.
ReactionIn(e) ==
    IF unwrap(e.payload.review).state = "approved" THEN "Approved" ELSE "Other"

(***************************************************************************)
(* C15  First-seen review reaction wins.  Among the in-window review       *)
(* events the loop has folded for a pull request url of a repository, the  *)
(* reaction stored in reviewed for that url is that of the first in input  *)
(* order; the url is in reviewed until parse_events returns, and after it  *)
(* unless the dedup took it out.                                           *)
(***************************************************************************)
C15_FirstSeenReaction ==
    pc # "panicked" =>
        \A repo \in AllRepos, url \in AllUrls :
            LET idx == {k \in 1..(next - 1) : Reviews(raw_events[k], repo, url)}
            IN  idx # {} =>
                    LET first == CHOOSE k \in idx : \A o \in idx : k <= o
                    IN  /\ repo \in DOMAIN repos
                        /\ pc = "parse_events" => url \in DOMAIN repos[repo].reviewed
                        /\ url \in DOMAIN repos[repo].reviewed =>
                                repos[repo].reviewed[url] = ReactionIn(raw_events[first])

\* A review that requests changes, then an approving review of the same pull
\* request: the url ends in reviewed as Other.
C15_Witness ==
    /\ pc = "done"
    /\ Len(raw_events) = 2
    /\ Reviews(raw_events[1], RA, U1) /\ ReactionIn(raw_events[1]) = "Other"
    /\ Reviews(raw_events[2], RA, U1) /\ ReactionIn(raw_events[2]) = "Approved"
    /\ repos[RA].reviewed[U1] = "Other"

\* The requests my_events has made, in order: the page index of each.
IsRequest(l) == l.kind = "Querying page"
Requests == SelectSeq(stdout, IsRequest)

(***************************************************************************)
(* C16  Strictly sequential paging.  The k-th request of my_events is for  *)
(* the page index k - 1, so the indices start at 0, increase by one and    *)
(* none is requested twice; every request but the last has been answered   *)
(* before the next one is made; and a request after the first is made only *)
(* when the page before it was served with at least one qualifying event.  *)
(***************************************************************************)
C16_SequentialPaging ==
    /\ \A k \in 1..Len(Requests) : Requests[k].text = k - 1
    /\ Len(Requests) \in {Len(served), Len(served) + 1}
    /\ \A k \in 2..Len(Requests) : HasNewerOwn(served[k - 1])
    /\ pc = "my_events" => (Len(Requests) = Len(served) /\ page = Len(served))

\* Three pages have been requested and served and the loop goes on.
C16_Witness ==
    /\ pc = "my_events"
    /\ Len(Requests) = 3
    /\ Requests[3].text = 2
    /\ Len(served) = 3

(***************************************************************************)
(* C17  The fetch result is an order-preserving filter.  When my_events    *)
(* has returned Ok, the list is exactly the events of the pages served     *)
(* that are of the user and newer than the lower cutoff, page by page and  *)
(* in page order: no event of another actor, none twice, none out of       *)
(* order.                                                                  *)
(***************************************************************************)
C17_OrderPreservingFilter ==
    LiveReturned =>
        /\ raw_events = SelectSeq(Concat(served, Len(served)), NewerOwn)
        /\ \A k \in 1..Len(raw_events) : raw_events[k].actor.login = user

\* Two pages that each hold a kept and a dropped event, then an empty page:
\* the two kept events are returned in the order served.
C17_Witness ==
    /\ LiveReturned
    /\ Len(served) = 3
    /\ Len(served[1]) = 2 /\ Len(served[2]) = 2
    /\ served[1] # served[2]
    /\ Len(raw_events) = 2
    /\ IsIn(raw_events[1], served[1]) /\ IsIn(raw_events[2], served[2])
    /\ raw_events[1] # raw_events[2]

\* The lines print_events printed for a url with the fallback title "".
FallbackLines(url) ==
    {k \in 1..Len(stdout) :
        /\ stdout[k].kind \in {"opened", "reviewed approved", "reviewed other", "commented"}
        /\ stdout[k].text = <<"[", "](">> \o url \o <<")">>}

(***************************************************************************)
(* C18  Title coverage.  Every url in pr_action, reviewed or issues of a   *)
(* repository has an entry in the titles of that repository, during the    *)
(* fold and after parse_events has returned, and print_events prints no    *)
(* item with the empty fallback title.                                     *)
(***************************************************************************)
C18_TitleCoverage ==
    /\ \A repo \in DOMAIN repos :
            LET ev == repos[repo]
            IN  (DOMAIN ev.pr_action \cup DOMAIN ev.reviewed \cup DOMAIN ev.issues)
                    \subseteq DOMAIN ev.titles
    /\ \A url \in AllUrls : FallbackLines(url) = {}

\* A run that printed an opened, a reviewed and a commented item.
C18_Witness ==
    /\ pc = "done"
    /\ Printed("opened") = 1
    /\ Printed("reviewed approved") + Printed("reviewed other") = 1
    /\ Printed("commented") = 1

(***************************************************************************)
(* C19  Bounded fetch.  my_events makes at most pagelimit + 2 = 7          *)
(* requests, for the page indices 0 to pagelimit + 1 = 6, and has ended    *)
(* (with a list or an error) once the seventh is answered; when the page   *)
(* of index 6 is the first without a qualifying event it returns Ok and    *)
(* not the pagination error.                                               *)
(***************************************************************************)
C19_BoundedFetch ==
    /\ Len(Requests) <= pagelimit + 2
    /\ \A k \in 1..Len(Requests) : Requests[k].text \in 0..(pagelimit + 1)
    /\ page \in 0..(pagelimit + 1)
    /\ Len(served) = pagelimit + 2 => pc # "my_events"
    /\ (/\ Len(served) = pagelimit + 2
        /\ ~HasNewerOwn(served[pagelimit + 2])) =>
            /\ LiveReturned
            /\ err = ""
            /\ Len(raw_events) >= pagelimit + 1

\* The seventh page, of index 6, is the first without a qualifying event and
\* the run has ended normally.
C19_Witness ==
    /\ pc = "done"
    /\ ~from_file
    /\ Len(served) = pagelimit + 2
    /\ Requests[Len(Requests)].text = pagelimit + 1
    /\ ~HasNewerOwn(served[pagelimit + 2])

====
